---- MODULE Spec2Model ----
(***************************************************************************)
(* State-machine model of src/streamlit_app.py: one pass of main() over   *)
(* the Snowflake session (sidebar controls, then the render pass with its  *)
(* five tabs), re-entered on every user interaction.                       *)
(*                                                                         *)
(* The external platform is modelled as data (db: tables, registry, UDF)   *)
(* plus per-call failures: a read of a service in `flaky` may raise.       *)
(***************************************************************************)
EXTENDS Integers, Sequences, FiniteSets, TLC

VARIABLES
    db,                 \* external objects: tables, model registry, UDF
    flaky,              \* services whose calls may raise in this world
    user,               \* controls the user operates (the others keep defaults)
    pc,                 \* position of main() in its pass
    versions,           \* main: versions (line 185, reordered line 189)
    default_ver,        \* main: default_ver (line 186)
    options,            \* options handed to the "Model version" selector
    selected_version,   \* main: selected_version
    source_mode,        \* main: source_mode
    tickers,            \* main: tickers (line 199)
    ticker,             \* main: ticker (line 200)
    mn, mx,             \* main: mn, mx (line 202)
    start_date,         \* main: start_date
    end_date,           \* main: end_date
    start_ts, end_ts,   \* main: start_ts, end_ts (lines 219-220)
    preds_pd,           \* main: preds_pd
    feats_pd,           \* main: feats_pd
    merged,             \* main: merged
    tabs,               \* tabs whose body has been rendered, in order
    msgs,               \* st.warning / st.info shown by the render pass
    reads,              \* external operations issued by the render pass
    last,               \* record of the last helper call (inputs, trace)
    signal_result,      \* main: signal_result (line 290)
    comparison_results, \* main: comparison_results (line 328)
    loop_i,             \* index of the comparison loop (line 331)
    crashed             \* where an exception left main, or NONE

vars == <<db, flaky, user, pc, versions, default_ver, options,
          selected_version, source_mode, tickers, ticker, mn, mx,
          start_date, end_date, start_ts, end_ts, preds_pd, feats_pd, merged, tabs, msgs, reads, last,
          signal_result, comparison_results, loop_i, crashed>>

-----------------------------------------------------------------------------
(* Bounds of the model *)

\* longest version list held by the registry
MaxVers == 2
\* most rows of PRICE_FEATURES, and of PREDICTIONS_SP500_RET3M, where they vary
MaxRows == 2

-----------------------------------------------------------------------------
(* Constants of the program *)

\* line 204: the start date defaults to 30 days before the last timestamp
DefaultWindowDays == 30
\* line 118: the lower bound of an empty PRICE_FEATURES is 90 days before today
EmptyTableDays == 90
\* line 200: the ticker selector offers the first 500 tickers
TickerOptions == 500
\* line 284: the signal selector offers the first 20 tickers
SignalOptions == 20
\* lines 285 and 333: the analysis period, 7 days unless the slider moves
SignalDays == 7

-----------------------------------------------------------------------------
(* Values *)

\* Python's None
NONE == "<None>"

Range(s) == {s[i] : i \in DOMAIN s}

Last(s) == s[Len(s)]

\* sequences over S of length at most n
SeqsUpTo(S, n) == UNION {[1..k -> S] : k \in 0..n}

\* version names the registry may hold
VersionPool == {"V_2", "V_10", "V1"}

\* the characters of a version name
Chars(v) ==
    CASE v = "V_2"  -> <<"V", "_", "2">>
      [] v = "V_10" -> <<"V", "_", "1", "0">>
      [] v = "V1"   -> <<"V", "1">>
      [] v = "V_1"  -> <<"V", "_", "1">>
      [] OTHER      -> <<>>

Digits == <<"0", "1", "2", "3", "4", "5", "6", "7", "8", "9">>

DigitVal(c) == (CHOOSE i \in 1..10 : Digits[i] = c) - 1

-----------------------------------------------------------------------------
(* list_model_versions, lines 30-67 *)

\* outcome of one try block: it returned a value, fell through, or raised
Return(v) == [kind |-> "return", value |-> v]
Fall == [kind |-> "fall", value |-> <<>>]
Raise == [kind |-> "raise", value |-> <<>>]

\* ast.literal_eval on a versions string: the list it encodes, or an exception
literal_eval(val) ==
    IF val.parses THEN Return(val.items) ELSE Raise

\* lines 32-49: the Registry path. val is the "versions" cell of show_models()
RegistryPath(fail, val) ==
    IF fail THEN Raise
    ELSE IF val.kind \in {"empty_df", "no_row"} THEN Fall
    ELSE IF val.kind = "str"
         THEN LET p == literal_eval(val)
              IN  IF p.kind = "raise" THEN Raise
                  ELSE IF p.value # <<>> THEN Return(p.value) ELSE Return(<<>>)
    ELSE IF val.kind = "list" THEN Return(val.items)
    ELSE Fall

\* lines 51-66: the SQL path. val is the VERSIONS cell of the first row
SqlPath(fail, val) ==
    IF fail THEN Raise
    ELSE IF val.kind = "no_row" THEN Fall
    ELSE IF val.kind = "str"
         THEN LET p == literal_eval(val)
              IN  IF p.kind = "raise" THEN Raise
                  ELSE IF p.value # <<>> THEN Return(p.value) ELSE Return(<<>>)
    ELSE IF val.kind = "list" THEN Return(val.items)
    ELSE Fall

\* the SQL query is issued before the registry is consulted
list_model_versions_SqlFirst(d, failReg, failSql) ==
    LET b == SqlPath(failSql, d.reg.models_view)
        a == RegistryPath(failReg, d.reg.show_models)
    IN  IF b.kind = "return"
        THEN [result |-> b.value, calls |-> <<"sql">>, reg |-> "not_called",
              sql |-> b.kind, raised |-> FALSE]
        ELSE [result |-> a.value, calls |-> <<"sql", "show_models">>,
              reg |-> a.kind, sql |-> b.kind, raised |-> FALSE]

\* lines 51-67: the fallback stage, entered when the registry path did not return
SqlStage(d, failSql) ==
    LET b == SqlPath(failSql, d.reg.models_view)
    IN  [result |-> IF b.kind = "return" THEN b.value ELSE <<>>,
         sql |-> b.kind, raised |-> FALSE]

list_model_versions(d, failReg, failSql) ==
    LET a == RegistryPath(failReg, d.reg.show_models)
    IN  IF a.kind = "return"
        THEN [result |-> a.value, calls |-> <<"show_models">>,
              reg |-> a.kind, sql |-> "not_called", raised |-> FALSE]
        ELSE LET s == SqlStage(d, failSql)
             IN  [result |-> s.result, calls |-> <<"show_models", "sql">>,
                  reg |-> a.kind, sql |-> s.sql, raised |-> s.raised]

-----------------------------------------------------------------------------
(* get_default_version, lines 70-95 *)

\* str.split(sep): the segments of s between occurrences of sep
RECURSIVE split(_, _)
split(s, sep) ==
    IF \A i \in DOMAIN s : s[i] # sep THEN <<s>>
    ELSE LET i == CHOOSE j \in DOMAIN s :
                      s[j] = sep /\ \A k \in 1..(j - 1) : s[k] # sep
         IN  <<SubSeq(s, 1, i - 1)>> \o split(SubSeq(s, i + 1, Len(s)), sep)

\* int(text) succeeds on a non-empty run of decimal digits
IsInt(cs) == cs # <<>> /\ \A i \in DOMAIN cs : cs[i] \in Range(Digits)

RECURSIVE IntOf(_)
IntOf(cs) ==
    IF cs = <<>> THEN 0
    ELSE 10 * IntOf(SubSeq(cs, 1, Len(cs) - 1)) + DigitVal(Last(cs))

\* lines 87-91: the numeric suffix of a version name, -1 when it does not parse
key(v) ==
    LET seg == Last(split(Chars(v), "_"))
    IN  IF IsInt(seg) THEN IntOf(seg) ELSE -1

\* sorted(vers, key=key): a stable sort, equal keys keep their order
RECURSIVE sorted(_)
sorted(vs) ==
    IF vs = <<>> THEN <<>>
    ELSE LET rest == sorted(SubSeq(vs, 1, Len(vs) - 1))
             x == Last(vs)
             n == Cardinality({i \in DOMAIN rest : key(rest[i]) <= key(x)})
         IN  SubSeq(rest, 1, n) \o <<x>> \o SubSeq(rest, n + 1, Len(rest))

\* the first element of the sorted list is taken
HighestVersion_First(vs) == sorted(vs)[1]

\* line 92: sorted(vers, key=key)[-1]
HighestVersion(vs) == Last(sorted(vs))

get_default_version(d, failDefault, failReg, failSql) ==
    LET name == d.reg.default
    IN  IF ~failDefault /\ name # NONE
        THEN [result |-> name, lookup |-> "ok", fallback |-> FALSE,
              vers |-> <<>>, raised |-> FALSE]
        ELSE LET in == list_model_versions(d, failReg, failSql)
                 how == IF failDefault THEN "raise" ELSE "not_str"
             IN  IF in.raised \/ in.result = <<>>
                 THEN [result |-> NONE, lookup |-> how, fallback |-> TRUE,
                       vers |-> in.result, raised |-> FALSE]
                 ELSE [result |-> HighestVersion(in.result), lookup |-> how,
                       fallback |-> TRUE, vers |-> in.result, raised |-> FALSE]

-----------------------------------------------------------------------------
(* main, lines 188-190: the options of the "Model version" selector *)

\* the default is put first without removing its other occurrence
DefaultFirst_Keep(vs, dv) ==
    IF dv # NONE /\ dv \in Range(vs) THEN <<dv>> \o vs ELSE vs

\* lines 188-189
DefaultFirst(vs, dv) ==
    IF dv # NONE /\ dv \in Range(vs)
    THEN <<dv>> \o SelectSeq(vs, LAMBDA v : v # dv)
    ELSE vs

\* line 190
SelectorOptions(vs, dv) ==
    IF vs # <<>> THEN vs ELSE IF dv # NONE THEN <<dv>> ELSE <<"V_1">>


-----------------------------------------------------------------------------
(* Time: minutes since an epoch; a date is a day number *)

Day == 24 * 60

\* Timestamp.date()
Date(ts) == ts \div Day

\* pd.to_datetime(date): midnight of the day
Midnight(d) == d * Day

\* pd.Timestamp.today()
Today == 100 * Day + 9 * 60

\* TS values of the tables: noon of day 0, of day 35 and of day 40
TsPool == {12 * 60, 35 * Day + 12 * 60, 40 * Day + 12 * 60}

\* tickers of the tables, and their alphabetical order
TickerPool == {"AAPL", "MSFT"}

TickerOrder == <<"AAPL", "AMZN", "GOOGL", "MSFT", "TSLA">>

Rank(t) == CHOOSE i \in DOMAIN TickerOrder : TickerOrder[i] = t

-----------------------------------------------------------------------------
(* Tables: sets of rows keyed by (TICKER, TS), as section 3 of the spec has it *)

Keys == TickerPool \X TsPool

\* CLOSE of a PRICE_FEATURES row (the feature columns are not read by the app)
CloseOf(k) == 100 + Rank(k[1]) + Date(k[2])

\* a value of PREDICTED_RETURN: who produced it, for which row
Pred(by, t, ts) == [by |-> by, TICKER |-> t, TS |-> ts]

\* a missing PREDICTED_RETURN
NaN == Pred("NaN", "", 0)

PriceFeatures(ks) == {[TICKER |-> k[1], TS |-> k[2], CLOSE |-> CloseOf(k)] : k \in ks}

Predictions(ks) ==
    {[TICKER |-> k[1], TS |-> k[2],
      PREDICTED_RETURN |-> Pred("persisted", k[1], k[2])] : k \in ks}

KeySets == {ks \in SUBSET Keys : Cardinality(ks) <= MaxRows}

\* a pandas DataFrame: its columns and its rows in order
Frame(cols, rows) == [cols |-> cols, rows |-> rows]

\* pd.DataFrame()
EmptyFrame == Frame({}, <<>>)

\* DataFrame.empty
IsEmpty(f) == f.rows = <<>> \/ f.cols = {}

\* .sort(col("TS")): the rows of a set in ascending TS order
RECURSIVE SortByTS(_)
SortByTS(rs) ==
    IF rs = {} THEN <<>>
    ELSE LET r == CHOOSE x \in rs : \A y \in rs : x.TS <= y.TS
         IN  <<r>> \o SortByTS(rs \ {r})

\* .filter((TICKER == symbol) & (TS >= start_dt) & (TS <= end_dt))
InWindow(rs, symbol, s, e) ==
    {r \in rs : r.TICKER = symbol /\ r.TS >= s /\ r.TS <= e}

-----------------------------------------------------------------------------
(* list_tickers, lines 98-113 *)

\* the rows of a ticker column as a Python list (table order: descending)
RECURSIVE TickerList(_)
TickerList(ts) ==
    IF ts = {} THEN <<>>
    ELSE LET t == CHOOSE x \in ts : \A y \in ts : Rank(x) >= Rank(y)
         IN  <<t>> \o TickerList(ts \ {t})

\* sorted(list of tickers)
RECURSIVE SortTickers(_)
SortTickers(ts) ==
    IF ts = {} THEN <<>>
    ELSE LET t == CHOOSE x \in ts : \A y \in ts : Rank(x) <= Rank(y)
         IN  <<t>> \o SortTickers(ts \ {t})

list_tickers(d, failTk, failPf) ==
    IF ~failTk /\ d.tk # {}
    THEN [result |-> TickerList(d.tk), calls |-> <<"SP500_TICKERS">>,
          raised |-> FALSE]
    ELSE IF failPf
         THEN [result |-> <<>>, calls |-> <<"SP500_TICKERS", "PRICE_FEATURES">>,
               raised |-> TRUE]
         ELSE [result |-> TickerList({r.TICKER : r \in d.pf}),
               calls |-> <<"SP500_TICKERS", "PRICE_FEATURES">>, raised |-> FALSE]

-----------------------------------------------------------------------------
(* get_time_bounds, lines 116-120 *)

MinTS(rs) == CHOOSE t \in {r.TS : r \in rs} : \A r \in rs : t <= r.TS

MaxTS(rs) == CHOOSE t \in {r.TS : r \in rs} : \A r \in rs : t >= r.TS

get_time_bounds(d, fail) ==
    IF fail THEN [mn |-> 0, mx |-> 0, raised |-> TRUE]
    ELSE IF d.pf = {}
         THEN [mn |-> Today - EmptyTableDays * Day, mx |-> Today, raised |-> FALSE]
         ELSE [mn |-> MinTS(d.pf), mx |-> MaxTS(d.pf), raised |-> FALSE]

\* line 204: the default value of the "Start date" input
DefaultStart(hi) == Date(hi - DefaultWindowDays * Day)

\* st.date_input raises when its default value is outside [min_value, max_value]
DateInputAccepts(value, lo, hi) == lo <= value /\ value <= hi


-----------------------------------------------------------------------------
(* load_existing_predictions, score_on_demand, load_close_series *)

\* lines 123-131
load_existing_predictions(d, symbol, s, e) ==
    Frame({"TICKER", "TS", "PREDICTED_RETURN"}, SortByTS(InWindow(d.pr, symbol, s, e)))

\* mv.run(feats, function_name="PREDICT"): the registry's model version adds
\* its PREDICTED_RETURN to every feature row
mv_run(version, feats) ==
    [i \in DOMAIN feats |->
        [TICKER |-> feats[i].TICKER, TS |-> feats[i].TS, CLOSE |-> feats[i].CLOSE,
         PREDICTED_RETURN |-> Pred(version, feats[i].TICKER, feats[i].TS)]]

\* lines 134-147; reg.get_model(..).version(version) raises for an unknown version
score_on_demand(d, symbol, s, e, version, fail) ==
    IF version \notin d.reg.names
    THEN [frame |-> EmptyFrame, calls |-> {"registry.version"}, raised |-> TRUE]
    ELSE IF fail
         THEN [frame |-> EmptyFrame,
               calls |-> {"registry.version", "PRICE_FEATURES", "mv.run"},
               raised |-> TRUE]
         ELSE [frame |-> Frame({"TICKER", "TS", "CLOSE", "PREDICTED_RETURN"},
                               mv_run(version, SortByTS(InWindow(d.pf, symbol, s, e)))),
               calls |-> {"registry.version", "PRICE_FEATURES", "mv.run"},
               raised |-> FALSE]

\* lines 150-159
load_close_series(d, symbol, s, e) ==
    Frame({"TICKER", "TS", "CLOSE"}, SortByTS(InWindow(d.pf, symbol, s, e)))

\* the persisted table is read whatever the prediction source
LoadPreds_AlwaysPersisted(d, mode, symbol, s, e, version, fail) ==
    IF fail THEN [frame |-> EmptyFrame, calls |-> {"PREDICTIONS_SP500_RET3M"},
                  raised |-> TRUE]
    ELSE [frame |-> load_existing_predictions(d, symbol, s, e),
          calls |-> {"PREDICTIONS_SP500_RET3M"}, raised |-> FALSE]

\* main, lines 223-226: the one source the prediction-source control selects
LoadPreds(d, mode, symbol, s, e, version, fail) ==
    IF mode = "Existing predictions"
    THEN IF fail THEN [frame |-> EmptyFrame, calls |-> {"PREDICTIONS_SP500_RET3M"},
                       raised |-> TRUE]
         ELSE [frame |-> load_existing_predictions(d, symbol, s, e),
               calls |-> {"PREDICTIONS_SP500_RET3M"}, raised |-> FALSE]
    ELSE score_on_demand(d, symbol, s, e, version, fail)

-----------------------------------------------------------------------------
(* main, lines 237-246: the display frame *)

\* the PREDICTED_RETURN values of the right rows matching a left row on TICKER, TS
Matches(l, right) ==
    SelectSeq(right, LAMBDA r : r.TICKER = l.TICKER /\ r.TS = l.TS)

Joined(l, p) ==
    [TICKER |-> l.TICKER, TS |-> l.TS, CLOSE |-> l.CLOSE, PREDICTED_RETURN |-> p]

\* an inner join: left rows without a match are dropped
RECURSIVE merge_inner(_, _)
merge_inner(left, right) ==
    IF left = <<>> THEN <<>>
    ELSE LET l == Head(left)
             ms == Matches(l, right)
         IN  [i \in DOMAIN ms |-> Joined(l, ms[i].PREDICTED_RETURN)]
             \o merge_inner(Tail(left), right)

\* DataFrame.merge(right, on=["TICKER", "TS"], how="left")
RECURSIVE merge_left(_, _)
merge_left(left, right) ==
    IF left = <<>> THEN <<>>
    ELSE LET l == Head(left)
             ms == Matches(l, right)
         IN  (IF ms = <<>> THEN <<Joined(l, NaN)>>
              ELSE [i \in DOMAIN ms |-> Joined(l, ms[i].PREDICTED_RETURN)])
             \o merge_left(Tail(left), right)

\* lines 238-246
BuildMerged(feats, preds) ==
    IF ~IsEmpty(feats)
    THEN IF ~IsEmpty(preds) /\ "PREDICTED_RETURN" \in preds.cols
         THEN Frame(feats.cols \cup {"PREDICTED_RETURN"},
                    merge_left(feats.rows, preds.rows))
         ELSE feats
    ELSE preds

-----------------------------------------------------------------------------
(* get_trading_signal_demo, lines 162-170, and the comparison loop *)

CompTickers == <<"AAPL", "MSFT", "GOOGL", "AMZN", "TSLA">>

\* a string value: its lines, each a sequence of words
Str(lines) == [kind |-> "str", lines |-> lines]

\* SQL NULL, None in Python
Null == [kind |-> "null", lines |-> <<>>]

\* results of GET_TRADING_SIGNAL: a report with a SIGNAL: line, a text without
\* one, NULL
Report(t) == Str(<<<<"Ticker", t>>, <<"SIGNAL:", "BUY">>, <<"Confidence", "HIGH">>>>)

Plain == Str(<<<<"insufficient", "data">>>>)

SignalPool(t) == {Report(t), Plain, Null}

\* the rows of SELECT GET_TRADING_SIGNAL(ticker, days) as signal
UdfRows(d, t, days) == <<[SIGNAL |-> d.udf[t]]>>

ErrorSignal == Str(<<<<"Error getting signal: ", "exception">>>>)

NoSignal == Str(<<<<"No signal available">>>>)

get_trading_signal_demo(d, t, days, fail) ==
    IF fail THEN [result |-> ErrorSignal, raised |-> FALSE]
    ELSE LET result == UdfRows(d, t, days)
         IN  IF result # <<>> THEN [result |-> result[1].SIGNAL, raised |-> FALSE]
             ELSE [result |-> NoSignal, raised |-> FALSE]

\* lines 332-342: the row appended for one ticker. str.split on None raises
\* AttributeError, which the loop's except turns into an Error row
ComparisonRow(t, signal) ==
    IF signal.kind # "str"
    THEN [Ticker |-> t, Signal |-> <<"Error:", "AttributeError">>]
    ELSE LET signal_line == SelectSeq(signal.lines, LAMBDA l : "SIGNAL:" \in Range(l))
         IN  IF signal_line # <<>>
             THEN [Ticker |-> t, Signal |-> split(signal_line[1], "SIGNAL:")[2]]
             ELSE [Ticker |-> t, Signal |-> <<"Unknown">>]


-----------------------------------------------------------------------------
(* The worlds main() runs in: what the platform holds, which of its services
   may raise, and which controls the user operates.  Each family varies one
   part of the platform and keeps the rest at a representative value. *)

\* a "versions" cell: its Python type, whether literal_eval accepts it, its items
Val(kind, parses, items) == [kind |-> kind, parses |-> parses, items |-> items]

VersionLists == SeqsUpTo(VersionPool, MaxVers)

\* cells with items: a well-formed string, a list
ItemVals == {Val(k, TRUE, l) : k \in {"str", "list"}, l \in VersionLists}

ShowModelsVals ==
    ItemVals \cup {Val("empty_df", TRUE, <<>>), Val("no_row", TRUE, <<>>),
                   Val("str", FALSE, <<>>), Val("other", TRUE, <<>>)}

ModelsViewVals ==
    ItemVals \cup {Val("no_row", TRUE, <<>>), Val("str", FALSE, <<>>),
                   Val("other", TRUE, <<>>)}

BaseReg ==
    [show_models |-> Val("list", TRUE, <<"V_2", "V_10">>),
     models_view |-> Val("str", TRUE, <<"V_2", "V_10">>),
     default |-> "V_10", names |-> {"V_2", "V_10"}]

BasePf == PriceFeatures({k \in Keys : k[1] = "AAPL"})

BasePr == Predictions({k \in Keys : k[1] = "AAPL" /\ k[2] > Day})

BasePsi == {[FEATURE |-> "RSI_14", PSI |-> "0.2"]}

BaseShap == {[feature |-> "RSI_14", mean_abs_shap |-> "0.1"]}

AllTickers == Range(CompTickers) \cup TickerPool

BaseUdf == [t \in AllTickers |-> Report(t)]

BaseDb ==
    [pf |-> BasePf, pr |-> BasePr, tk |-> TickerPool, psi |-> BasePsi,
     shap |-> BaseShap, reg |-> BaseReg, udf |-> BaseUdf]

World(d, f, u) == [db |-> d, flaky |-> f, user |-> u]

\* the fact tables vary; the loads of the render pass may raise
TableWorlds ==
    {World([BaseDb EXCEPT !.pf = PriceFeatures(k1), !.pr = Predictions(k2)],
           {"PREDICTIONS_SP500_RET3M", "mv.run", "PRICE_FEATURES.close",
            "DRIFT_PSI_SP500", "FEATURE_SHAP_GLOBAL_TOP"},
           {"version", "mode", "ticker", "dates"}) : k1 \in KeySets, k2 \in KeySets}

\* the ticker list and the monitoring tables vary; the sidebar reads may raise
AuxWorlds ==
    {World([BaseDb EXCEPT !.pf = p, !.tk = t, !.psi = q, !.shap = h],
           {"SP500_TICKERS", "PRICE_FEATURES.tickers", "PRICE_FEATURES.bounds"},
           {}) :
        p \in {{}, BasePf}, t \in SUBSET TickerPool, q \in {{}, BasePsi},
        h \in {{}, BaseShap}}

\* the UDF's answers vary; the UDF may raise
SignalWorlds ==
    {World([BaseDb EXCEPT !.udf = [BaseUdf EXCEPT ![x] = v]],
           {"GET_TRADING_SIGNAL"}, {"signal", "compare"}) :
        x \in AllTickers, v \in UNION {SignalPool(t) : t \in AllTickers}}

\* the registry varies; the registry reads may raise
RegistryWorlds ==
    {World([BaseDb EXCEPT !.reg = [show_models |-> a, models_view |-> b,
                                   default |-> dv,
                                   names |-> Range(a.items) \cup Range(b.items)]],
           {"show_models", "models_view", "get_model.default"}, {"version"}) :
        a \in ShowModelsVals, b \in ModelsViewVals, dv \in VersionPool \cup {NONE}}

\* whether a call of service svc may raise
MayFail(svc) == IF svc \in flaky THEN BOOLEAN ELSE {FALSE}

\* the values a control may take: any of S when the user operates it
Choice(control, S, dflt) == IF control \in user THEN S ELSE {dflt}

Take(s, n) == SubSeq(s, 1, IF Len(s) < n THEN Len(s) ELSE n)

First(s) == IF s = <<>> THEN NONE ELSE s[1]

-----------------------------------------------------------------------------
(* Initial state: main() is about to run *)

NoCall == [fn |-> "none"]

InitLocals ==
    /\ pc = "start"
    /\ versions = <<>> /\ default_ver = NONE /\ options = <<>>
    /\ selected_version = NONE /\ source_mode = NONE
    /\ tickers = <<>> /\ ticker = NONE
    /\ mn = 0 /\ mx = 0 /\ start_date = 0 /\ end_date = 0
    /\ start_ts = 0 /\ end_ts = 0
    /\ preds_pd = EmptyFrame /\ feats_pd = EmptyFrame /\ merged = EmptyFrame
    /\ tabs = <<>> /\ msgs = {} /\ reads = {} /\ last = NoCall
    /\ signal_result = Null /\ comparison_results = <<>> /\ loop_i = 0
    /\ crashed = NONE

InitIn(W) ==
    /\ \E w \in W : db = w.db /\ flaky = w.flaky /\ user = w.user
    /\ InitLocals

Init == InitIn(TableWorlds \cup AuxWorlds \cup SignalWorlds)

InitVersions == InitIn(RegistryWorlds)

world == <<db, flaky, user>>

sidebar == <<versions, default_ver, options, selected_version, source_mode,
             tickers, mn, mx, start_date, end_date>>

render == <<start_ts, end_ts, preds_pd, feats_pd, merged, tabs, msgs, reads>>

signals == <<signal_result, comparison_results, loop_i>>

\* an exception leaves main at `where`
Crash(where) == pc' = "crashed" /\ crashed' = where

-----------------------------------------------------------------------------
(* main, lines 183-208: the sidebar *)

\* line 185
ListModelVersions ==
    /\ pc = "start"
    /\ \E failReg \in MayFail("show_models"), failSql \in MayFail("models_view") :
          LET r == list_model_versions(db, failReg, failSql)
          IN  /\ last' = [fn |-> "list_model_versions", failReg |-> failReg,
                          failSql |-> failSql, out |-> r]
              /\ IF r.raised
                 THEN Crash("list_model_versions") /\ versions' = versions
                 ELSE pc' = "default_ver" /\ versions' = r.result
                      /\ crashed' = crashed
    /\ UNCHANGED <<world, default_ver, options, selected_version, source_mode,
                   tickers, ticker, mn, mx, start_date, end_date, render, signals>>

\* line 186
GetDefaultVersion ==
    /\ pc = "default_ver"
    /\ \E failDefault \in MayFail("get_model.default"),
          failReg \in MayFail("show_models"), failSql \in MayFail("models_view") :
          LET r == get_default_version(db, failDefault, failReg, failSql)
          IN  /\ last' = [fn |-> "get_default_version", failDefault |-> failDefault,
                          failReg |-> failReg, failSql |-> failSql, out |-> r]
              /\ IF r.raised
                 THEN Crash("get_default_version") /\ default_ver' = default_ver
                 ELSE pc' = "select_version" /\ default_ver' = r.result
                      /\ crashed' = crashed
    /\ UNCHANGED <<world, versions, options, selected_version, source_mode,
                   tickers, ticker, mn, mx, start_date, end_date, render, signals>>

\* lines 188-190: the "Model version" selector
SelectVersion ==
    /\ pc = "select_version"
    /\ LET vs == DefaultFirst(versions, default_ver)
           opts == SelectorOptions(vs, default_ver)
       IN  /\ versions' = vs
           /\ options' = opts
           /\ selected_version' \in Choice("version", Range(opts), First(opts))
    /\ pc' = "source_mode"
    /\ UNCHANGED <<world, default_ver, source_mode, tickers, ticker, mn, mx,
                   start_date, end_date, render, signals, last, crashed>>

\* lines 192-197: the "Prediction source" radio
SourceMode ==
    /\ pc = "source_mode"
    /\ source_mode' \in Choice("mode", {"Existing predictions", "On-demand scoring"},
                               "Existing predictions")
    /\ pc' = "tickers"
    /\ UNCHANGED <<world, versions, default_ver, options, selected_version,
                   tickers, ticker, mn, mx, start_date, end_date, render, signals,
                   last, crashed>>

\* lines 199-200: the "Ticker" selector
ListTickers ==
    /\ pc = "tickers"
    /\ \E failTk \in MayFail("SP500_TICKERS"),
          failPf \in MayFail("PRICE_FEATURES.tickers") :
          LET r == list_tickers(db, failTk, failPf)
              opts == Take(SortTickers(Range(r.result)), TickerOptions)
          IN  /\ last' = [fn |-> "list_tickers", failTk |-> failTk,
                          failPf |-> failPf, out |-> r]
              /\ IF r.raised
                 THEN Crash("list_tickers") /\ UNCHANGED <<tickers, ticker>>
                 ELSE /\ pc' = "time_bounds" /\ crashed' = crashed
                      /\ tickers' = SortTickers(Range(r.result))
                      /\ ticker' \in Choice("ticker", Range(opts) \cup {First(opts)},
                                            First(opts))
    /\ UNCHANGED <<world, versions, default_ver, options, selected_version,
                   source_mode, mn, mx, start_date, end_date, render, signals>>

\* line 202
GetTimeBounds ==
    /\ pc = "time_bounds"
    /\ \E fail \in MayFail("PRICE_FEATURES.bounds") :
          LET r == get_time_bounds(db, fail)
          IN  /\ last' = [fn |-> "get_time_bounds", fail |-> fail, out |-> r]
              /\ IF r.raised
                 THEN Crash("get_time_bounds") /\ UNCHANGED <<mn, mx>>
                 ELSE pc' = "date_inputs" /\ mn' = r.mn /\ mx' = r.mx
                      /\ crashed' = crashed
    /\ UNCHANGED <<world, versions, default_ver, options, selected_version,
                   source_mode, tickers, ticker, start_date, end_date, render,
                   signals>>

\* lines 203-208: the two date inputs ("Update view" changes nothing: line 218)
DateInputs ==
    /\ pc = "date_inputs"
    /\ IF DateInputAccepts(DefaultStart(mx), Date(mn), Date(mx))
       THEN /\ start_date' \in Choice("dates", {Date(mn), DefaultStart(mx)},
                                      DefaultStart(mx))
            /\ end_date' \in Choice("dates", {Date(mn), Date(mx)}, Date(mx))
            /\ pc' = "load_preds" /\ crashed' = crashed
       ELSE Crash("date_input") /\ UNCHANGED <<start_date, end_date>>
    /\ UNCHANGED <<world, versions, default_ver, options, selected_version,
                   source_mode, tickers, ticker, mn, mx, render, signals, last>>


-----------------------------------------------------------------------------
(* main, lines 218-246: the loads of the render pass *)

\* the try/except around the prediction load is missing
LoadPredictions_Uncaught ==
    /\ pc = "load_preds"
    /\ start_ts' = Midnight(start_date)
    /\ end_ts' = Midnight(end_date) + 23 * 60 + 59
    /\ \E fail \in MayFail(IF source_mode = "Existing predictions"
                           THEN "PREDICTIONS_SP500_RET3M" ELSE "mv.run") :
          LET r == LoadPreds(db, source_mode, ticker, start_ts', end_ts',
                             selected_version, fail)
          IN  /\ reads' = reads \cup r.calls
              /\ last' = [fn |-> "load_predictions", fail |-> r.raised]
              /\ preds_pd' = r.frame
              /\ IF r.raised THEN Crash("load_predictions")
                 ELSE pc' = "load_close" /\ crashed' = crashed
    /\ UNCHANGED <<world, sidebar, ticker, feats_pd, merged, tabs, msgs, signals>>

\* on-demand scoring also persists what it scored
LoadPredictions_Persisting ==
    /\ pc = "load_preds"
    /\ start_ts' = Midnight(start_date)
    /\ end_ts' = Midnight(end_date) + 23 * 60 + 59
    /\ \E fail \in MayFail(IF source_mode = "Existing predictions"
                           THEN "PREDICTIONS_SP500_RET3M" ELSE "mv.run") :
          LET r == LoadPreds(db, source_mode, ticker, start_ts', end_ts',
                             selected_version, fail)
          IN  /\ reads' = reads \cup r.calls
              /\ last' = [fn |-> "load_predictions", fail |-> r.raised]
              /\ preds_pd' = r.frame
              /\ msgs' = IF r.raised THEN msgs \cup {"Could not load predictions"}
                         ELSE msgs
              /\ db' = IF source_mode = "On-demand scoring" /\ ~r.raised
                       THEN [db EXCEPT !.pr = @ \cup
                               {[TICKER |-> r.frame.rows[i].TICKER,
                                 TS |-> r.frame.rows[i].TS,
                                 PREDICTED_RETURN |-> r.frame.rows[i].PREDICTED_RETURN] :
                                  i \in DOMAIN r.frame.rows}]
                       ELSE db
    /\ pc' = "load_close"
    /\ UNCHANGED <<flaky, user, sidebar, ticker, feats_pd, merged, tabs, signals,
                   crashed>>

\* lines 219-229
LoadPredictions ==
    /\ pc = "load_preds"
    /\ start_ts' = Midnight(start_date)
    /\ end_ts' = Midnight(end_date) + 23 * 60 + 59
    /\ \E fail \in MayFail(IF source_mode = "Existing predictions"
                           THEN "PREDICTIONS_SP500_RET3M" ELSE "mv.run") :
          LET r == LoadPreds(db, source_mode, ticker, start_ts', end_ts',
                             selected_version, fail)
          IN  /\ reads' = reads \cup r.calls
              /\ last' = [fn |-> "load_predictions", fail |-> r.raised]
              /\ preds_pd' = r.frame
              /\ msgs' = IF r.raised THEN msgs \cup {"Could not load predictions"}
                         ELSE msgs
    /\ pc' = "load_close"
    /\ UNCHANGED <<world, sidebar, ticker, feats_pd, merged, tabs, signals, crashed>>

\* lines 231-246: the close series, then the display frame
LoadCloseSeries ==
    /\ pc = "load_close"
    /\ \E fail \in MayFail("PRICE_FEATURES.close") :
          LET f == IF fail THEN Frame({"TICKER", "TS", "CLOSE"}, <<>>)
                   ELSE load_close_series(db, ticker, start_ts, end_ts)
          IN  /\ feats_pd' = f
              /\ merged' = BuildMerged(f, preds_pd)
              /\ msgs' = IF fail THEN msgs \cup {"Could not load CLOSE series"}
                         ELSE msgs
              /\ last' = [fn |-> "load_close_series", fail |-> fail,
                          preds_failed |-> last.fail]
    /\ reads' = reads \cup {"PRICE_FEATURES.close"}
    /\ pc' = "tab_overview"
    /\ UNCHANGED <<world, sidebar, ticker, start_ts, end_ts, preds_pd, tabs,
                   signals, crashed>>

-----------------------------------------------------------------------------
(* main, lines 248-396: the five tabs *)

\* lines 248-274
TabOverview ==
    /\ pc = "tab_overview"
    /\ tabs' = Append(tabs, "Overview")
    /\ msgs' = IF ~IsEmpty(merged) /\ "PREDICTED_RETURN" \in merged.cols
               THEN msgs
               ELSE msgs \cup {"No predictions available for the selection."}
    /\ pc' = "tab_signals"
    /\ UNCHANGED <<world, sidebar, ticker, start_ts, end_ts, preds_pd, feats_pd,
                   merged, reads, signals, last, crashed>>

\* lines 276-320: the signal analysis of one ticker
TabSignals ==
    /\ pc = "tab_signals"
    /\ \E signal_ticker \in Choice("signal", Range(Take(tickers, SignalOptions))
                                   \cup {First(Take(tickers, SignalOptions))},
                                   First(Take(tickers, SignalOptions))),
          signal_days \in Choice("signal", {1, SignalDays, 90}, SignalDays),
          pressed \in Choice("signal", BOOLEAN, FALSE),
          fail \in MayFail("GET_TRADING_SIGNAL") :
          IF pressed /\ signal_ticker # NONE
          THEN LET r == get_trading_signal_demo(db, signal_ticker, signal_days, fail)
               IN  /\ last' = [fn |-> "get_trading_signal_demo", fail |-> fail,
                               ticker |-> signal_ticker, out |-> r]
                   /\ signal_result' = r.result
                   /\ msgs' = msgs
                   /\ IF r.raised THEN Crash("get_trading_signal_demo")
                      ELSE pc' = "compare" /\ crashed' = crashed
          ELSE /\ ~fail
               /\ msgs' = IF pressed THEN msgs \cup {"Please select a ticker"}
                          ELSE msgs
               /\ pc' = "compare"
               /\ UNCHANGED <<last, signal_result, crashed>>
    /\ UNCHANGED <<world, sidebar, ticker, start_ts, end_ts, preds_pd, feats_pd,
                   merged, tabs, reads, comparison_results, loop_i>>

\* line 326: the "Compare Top 5 Stocks" button
CompareButton ==
    /\ pc = "compare"
    /\ \E pressed \in Choice("compare", BOOLEAN, FALSE) :
          IF pressed
          THEN pc' = "compare_loop" /\ loop_i' = 1 /\ tabs' = tabs
          ELSE pc' = "tab_preds" /\ loop_i' = loop_i
               /\ tabs' = Append(tabs, "AI Trading Signals")
    /\ UNCHANGED <<world, sidebar, ticker, start_ts, end_ts, preds_pd, feats_pd,
                   merged, msgs, reads, signal_result, comparison_results, last,
                   crashed>>

\* lines 331-344: one iteration of the comparison loop (it rebinds `ticker`)
CompareStep ==
    /\ pc = "compare_loop" /\ loop_i <= Len(CompTickers)
    /\ ticker' = CompTickers[loop_i]
    /\ \E fail \in MayFail("GET_TRADING_SIGNAL") :
          LET r == get_trading_signal_demo(db, ticker', SignalDays, fail)
          IN  /\ last' = [fn |-> "get_trading_signal_demo", fail |-> fail,
                          ticker |-> ticker', out |-> r]
              /\ IF r.raised
                 THEN comparison_results' =
                          Append(comparison_results,
                                 [Ticker |-> ticker', Signal |-> <<"Error:", "exception">>])
                 ELSE comparison_results' =
                          Append(comparison_results, ComparisonRow(ticker', r.result))
    /\ loop_i' = loop_i + 1
    /\ UNCHANGED <<world, sidebar, pc, start_ts, end_ts, preds_pd, feats_pd, merged,
                   tabs, msgs, reads, signal_result, crashed>>

\* lines 346-348: the comparison table is shown
CompareShow ==
    /\ pc = "compare_loop" /\ loop_i > Len(CompTickers)
    /\ pc' = "tab_preds"
    /\ tabs' = Append(tabs, "AI Trading Signals")
    /\ UNCHANGED <<world, sidebar, ticker, start_ts, end_ts, preds_pd, feats_pd,
                   merged, msgs, reads, signals, last, crashed>>

\* lines 350-372
TabPreds ==
    /\ pc = "tab_preds"
    /\ tabs' = Append(tabs, "Predictions")
    /\ msgs' = IF IsEmpty(merged) \/ IsEmpty(feats_pd) \/ "CLOSE" \notin feats_pd.cols
               THEN msgs \cup {"No data to display for current filters."}
               ELSE msgs
    /\ pc' = "tab_drift"
    /\ UNCHANGED <<world, sidebar, ticker, start_ts, end_ts, preds_pd, feats_pd,
                   merged, reads, signals, last, crashed>>

\* lines 374-383
TabDrift ==
    /\ pc = "tab_drift"
    /\ \E fail \in MayFail("DRIFT_PSI_SP500") :
          /\ last' = [fn |-> "tab_drift", fail |-> fail]
          /\ msgs' = IF fail THEN msgs \cup {"PSI table not found."}
                     ELSE IF db.psi = {} THEN msgs \cup {"PSI table is empty."}
                     ELSE msgs
    /\ reads' = reads \cup {"DRIFT_PSI_SP500"}
    /\ tabs' = Append(tabs, "Drift")
    /\ pc' = "tab_explain"
    /\ UNCHANGED <<world, sidebar, ticker, start_ts, end_ts, preds_pd, feats_pd,
                   merged, signals, crashed>>

\* lines 385-396
TabExplain ==
    /\ pc = "tab_explain"
    /\ \E fail \in MayFail("FEATURE_SHAP_GLOBAL_TOP") :
          /\ last' = [fn |-> "tab_explain", fail |-> fail]
          /\ msgs' = IF fail \/ db.shap = {}
                     THEN msgs \cup {"No SHAP importance table found."}
                     ELSE msgs
    /\ reads' = reads \cup {"FEATURE_SHAP_GLOBAL_TOP"}
    /\ tabs' = Append(tabs, "Explainability")
    /\ pc' = "done"
    /\ UNCHANGED <<world, sidebar, ticker, start_ts, end_ts, preds_pd, feats_pd,
                   merged, signals, crashed>>

\* any interaction with a widget runs main() again from the top
Rerun ==
    /\ pc \in {"done", "crashed"}
    /\ pc' = "start"
    /\ versions' = <<>> /\ default_ver' = NONE /\ options' = <<>>
    /\ selected_version' = NONE /\ source_mode' = NONE
    /\ tickers' = <<>> /\ ticker' = NONE
    /\ mn' = 0 /\ mx' = 0 /\ start_date' = 0 /\ end_date' = 0
    /\ start_ts' = 0 /\ end_ts' = 0
    /\ preds_pd' = EmptyFrame /\ feats_pd' = EmptyFrame /\ merged' = EmptyFrame
    /\ tabs' = <<>> /\ msgs' = {} /\ reads' = {} /\ last' = NoCall
    /\ signal_result' = Null /\ comparison_results' = <<>> /\ loop_i' = 0
    /\ crashed' = NONE
    /\ UNCHANGED world

-----------------------------------------------------------------------------
(* Specifications *)

Next ==
    \/ ListModelVersions \/ GetDefaultVersion \/ SelectVersion \/ SourceMode
    \/ ListTickers \/ GetTimeBounds \/ DateInputs
    \/ LoadPredictions \/ LoadCloseSeries
    \/ TabOverview \/ TabSignals \/ CompareButton \/ CompareStep \/ CompareShow
    \/ TabPreds \/ TabDrift \/ TabExplain
    \/ Rerun

\* the whole of main(), over the table, monitoring and UDF worlds
Spec == Init /\ [][Next]_vars

NextVersions == ListModelVersions \/ GetDefaultVersion \/ SelectVersion

\* lines 185-190 of main(), over the registry worlds
SpecVersions == InitVersions /\ [][NextVersions]_vars


-----------------------------------------------------------------------------
(* Properties *)

\* the positions of the render pass (line 218 onwards)
RenderPcs ==
    {"load_preds", "load_close", "tab_overview", "tab_signals", "compare",
     "compare_loop", "tab_preds", "tab_drift", "tab_explain", "done"}

\* the positions at which `ticker` is still the sidebar's selection
SelectionPcs == {"load_close", "tab_overview", "tab_signals", "compare"}

FiveTabs ==
    <<"Overview", "AI Trading Signals", "Predictions", "Drift", "Explainability">>

\* C1: none of the read helpers main calls in the sidebar lets an exception
\* out: each returns an empty result when its preferred and its degraded read
\* path fail.
C1_HelpersNeverRaise ==
    /\ crashed \notin {"list_model_versions", "get_default_version",
                       "list_tickers", "get_time_bounds"}
    /\ last.fn \in {"list_model_versions", "get_default_version", "list_tickers",
                   "get_time_bounds"} => ~last.out.raised

\* C2: list_model_versions consults the registry first; the SQL query on
\* SNOWFLAKE_ML_MODELS is issued only when the registry path raised or gave no
\* string/list versions value; a value the registry path gives is returned
\* without the SQL query; with nothing from either path the result is the
\* empty list; the function never raises.
C2_RegistryThenSql ==
    last.fn = "list_model_versions" =>
        LET r == last.out
            sm == db.reg.show_models
            mv == db.reg.models_view
            regGives == ~last.failReg /\ sm.kind \in {"str", "list"} /\ sm.parses
            sqlGives == ~last.failSql /\ mv.kind \in {"str", "list"} /\ mv.parses
            sqlIssued == \E i \in DOMAIN r.calls : r.calls[i] = "sql"
        IN  /\ ~r.raised
            /\ r.calls[1] = "show_models"
            /\ sqlIssued => ~regGives /\ r.calls = <<"show_models", "sql">>
            /\ regGives => r.result = sm.items /\ ~sqlIssued
            /\ (~regGives /\ ~sqlGives) => r.result = <<>>

\* the registry raised, the SQL query was issued and gave the versions
C2_Witness ==
    /\ last.fn = "list_model_versions"
    /\ last.failReg
    /\ last.out.calls = <<"show_models", "sql">>
    /\ last.out.result = <<"V_2", "V_10">>

\* the numeric suffix of each version name of the pool, written out
C6_Suffix(v) ==
    CASE v = "V_2" -> 2 [] v = "V_10" -> 10 [] v = "V1" -> -1

\* C6: get_default_version returns the registry's default name when the lookup
\* succeeds with a string name; otherwise an element of the non-empty version
\* list whose numeric suffix is the maximum over the list; otherwise None; it
\* never raises.
C6_DefaultVersion ==
    last.fn = "get_default_version" =>
        LET r == last.out
            lookupOk == ~last.failDefault /\ db.reg.default # NONE
            vers == list_model_versions(db, last.failReg, last.failSql).result
        IN  /\ ~r.raised
            /\ lookupOk => r.result = db.reg.default
            /\ (~lookupOk /\ vers # <<>>) =>
                  /\ r.result \in Range(vers)
                  /\ \A v \in Range(vers) : C6_Suffix(v) <= C6_Suffix(r.result)
            /\ (~lookupOk /\ vers = <<>>) => r.result = NONE

\* the lookup failed and the highest version is not the last of the list
C6_Witness ==
    /\ last.fn = "get_default_version"
    /\ last.failDefault
    /\ last.out.vers = <<"V_10", "V_2">>
    /\ last.out.result = "V_10"

C3_ReadOnly == [][db' = db]_vars

\* a pass that scored on demand and rendered all its tabs
C3_Witness ==
    /\ pc = "done"
    /\ source_mode = "On-demand scoring"
    /\ ~IsEmpty(preds_pd)

\* the rows of a table for the sidebar's ticker inside the selected window
C4_Selected(rs) ==
    {r \in rs : r.TICKER = ticker /\ start_ts <= r.TS /\ r.TS <= end_ts}

\* C4: the predictions of a run come from the one source the control selects.
\* With "Existing predictions" the registry's run is not invoked and the rows
\* are the persisted rows of the ticker inside [start_ts, end_ts]; with
\* "On-demand scoring" the persisted table is not read and the rows are the
\* selected version's run over the PRICE_FEATURES rows of the ticker inside
\* the window. No PREDICTED_RETURN is produced by the application itself.
C4_OneSource ==
    /\ (pc \in RenderPcs /\ source_mode = "Existing predictions") =>
          reads \cap {"mv.run", "registry.version"} = {}
    /\ (pc \in RenderPcs /\ source_mode = "On-demand scoring") =>
          "PREDICTIONS_SP500_RET3M" \notin reads
    /\ (pc = "load_close" /\ ~last.fail) =>
          /\ Len(preds_pd.rows) = Cardinality(Range(preds_pd.rows))
          /\ \A i \in 1..(Len(preds_pd.rows) - 1) :
                preds_pd.rows[i].TS <= preds_pd.rows[i + 1].TS
          /\ IF source_mode = "Existing predictions"
             THEN Range(preds_pd.rows) = C4_Selected(db.pr)
             ELSE Range(preds_pd.rows) =
                     {[TICKER |-> r.TICKER, TS |-> r.TS, CLOSE |-> r.CLOSE,
                       PREDICTED_RETURN |-> Pred(selected_version, r.TICKER, r.TS)] :
                         r \in C4_Selected(db.pf)}
    /\ (pc = "load_close" /\ last.fail) => IsEmpty(preds_pd)
    /\ (pc \in SelectionPcs /\ "PREDICTED_RETURN" \in merged.cols) =>
          \A i \in DOMAIN merged.rows :
              merged.rows[i].PREDICTED_RETURN.by \in
                  {"NaN", IF source_mode = "Existing predictions"
                          THEN "persisted" ELSE selected_version}

\* version V_2, not the default, scored a row on demand
C4_Witness ==
    /\ pc = "load_close"
    /\ source_mode = "On-demand scoring"
    /\ selected_version = "V_2"
    /\ Len(preds_pd.rows) = 2
    /\ db.pr # {}

\* C5: a failed read of the render pass is isolated. A failed prediction load
\* leaves an empty table and a warning, and the close series is still loaded;
\* a failed close-series load leaves an empty TICKER, TS, CLOSE table and a
\* warning; a failed drift or SHAP read leaves an info message in its tab.
\* Whatever fails, the pass goes on, renders all five tabs, and no exception
\* leaves main from the render pass.
C5_FailuresIsolated ==
    /\ crashed # NONE =>
          crashed \in {"list_model_versions", "get_default_version",
                       "list_tickers", "get_time_bounds", "date_input"}
    /\ (pc \in RenderPcs /\ pc # "done") => ENABLED Next
    /\ (pc = "load_close" /\ last.fail) =>
          preds_pd = EmptyFrame /\ "Could not load predictions" \in msgs
    /\ pc = "tab_overview" =>
          /\ "PRICE_FEATURES.close" \in reads
          /\ last.preds_failed => "Could not load predictions" \in msgs
          /\ last.fail =>
                /\ feats_pd = Frame({"TICKER", "TS", "CLOSE"}, <<>>)
                /\ "Could not load CLOSE series" \in msgs
    /\ (pc = "tab_explain" /\ last.fail) =>
          "PSI table not found." \in msgs /\ Last(tabs) = "Drift"
    /\ (pc = "done" /\ last.fail) =>
          "No SHAP importance table found." \in msgs
    /\ pc = "done" => tabs = FiveTabs /\ crashed = NONE

\* all four reads of the render pass failed and the pass still finished
C5_Witness ==
    /\ pc = "done"
    /\ tabs = FiveTabs
    /\ {"Could not load predictions", "Could not load CLOSE series",
        "PSI table not found.", "No SHAP importance table found."} \subseteq msgs

\* the key of a row
C7_Key(r) == <<r.TICKER, r.TS>>

\* C7: the display frame is built on the close series. When the close series
\* is not empty the frame has one row per close-series row, in its order, each
\* a PRICE_FEATURES row of the ticker inside the window; a row takes the
\* PREDICTED_RETURN of the prediction with its key and an empty one without
\* such a prediction; predictions without a close-series row are not shown.
\* When the close series is empty the frame is the predictions table.
C7_LeftJoin ==
    pc \in SelectionPcs \ {"load_close"} =>
        IF IsEmpty(feats_pd) THEN merged = preds_pd
        ELSE /\ Len(merged.rows) = Len(feats_pd.rows)
             /\ \A i \in DOMAIN merged.rows :
                   LET m == merged.rows[i]
                       ps == {p \in Range(preds_pd.rows) : C7_Key(p) = C7_Key(m)}
                   IN  /\ [TICKER |-> m.TICKER, TS |-> m.TS, CLOSE |-> m.CLOSE]
                              = feats_pd.rows[i]
                       /\ feats_pd.rows[i] \in C4_Selected(db.pf)
                       /\ "PREDICTED_RETURN" \in merged.cols =>
                             IF ps = {} THEN m.PREDICTED_RETURN = NaN
                             ELSE m.PREDICTED_RETURN \in
                                      {p.PREDICTED_RETURN : p \in ps}
             /\ {C7_Key(m) : m \in Range(merged.rows)}
                    = {C7_Key(f) : f \in Range(feats_pd.rows)}

\* two close rows, one with a prediction and one without, and a prediction
\* that has no close row
C7_Witness ==
    /\ pc = "tab_overview"
    /\ Len(merged.rows) = 2
    /\ "PREDICTED_RETURN" \in merged.cols
    /\ \E i, j \in DOMAIN merged.rows :
          merged.rows[i].PREDICTED_RETURN = NaN /\ merged.rows[j].PREDICTED_RETURN # NaN
    /\ \E p \in Range(preds_pd.rows) :
          \A m \in Range(merged.rows) : C7_Key(m) # C7_Key(p)

\* C9: get_trading_signal_demo never raises and always returns a string: the
\* SIGNAL of the first row, "No signal available" without rows, a text that
\* starts with "Error getting signal: " when the query raises; so the
\* comparison has one row per ticker, in the order AAPL, MSFT, GOOGL, AMZN, TSLA.
C9_SignalIsString ==
    /\ last.fn = "get_trading_signal_demo" =>
          /\ ~last.out.raised
          /\ last.out.result.kind = "str"
          /\ last.fail => last.out.result.lines[1][1] = "Error getting signal: "
          /\ ~last.fail => last.out.result = db.udf[last.ticker]
    /\ (pc = "tab_preds" /\ loop_i > 0) =>
          /\ Len(comparison_results) = Len(CompTickers)
          /\ \A i \in DOMAIN comparison_results :
                comparison_results[i].Ticker = CompTickers[i]

\* C10: the bounds of get_time_bounds satisfy mn <= mx and the default values
\* of both date inputs lie inside [mn.date(), mx.date()].
C10_DefaultsInRange ==
    pc = "date_inputs" =>
        /\ mn <= mx
        /\ Date(mn) <= DefaultStart(mx) /\ DefaultStart(mx) <= Date(mx)
        /\ Date(mn) <= Date(mx)

====
